---------------------------- MODULE Spec2Model ----------------------------
(***************************************************************************)
(* Model of projector.py: class Projector (latent-space inversion of a     *)
(* frozen generator) and the calls the driver loop makes on it.            *)
(*                                                                         *)
(* Real numbers are fixed-point integers in thousandths (One = 1.0).       *)
(* Tensors are references into a heap of storages, so that two tensors     *)
(* sharing one storage (torch's detach) differ from a copy (clone).        *)
(* An optional attribute (Python None) is <<>> and a set one is <<v>>.     *)
(***************************************************************************)
EXTENDS Integers, Sequences, FiniteSets

\* ------------------------------------------------------------------ bounds
MaxSteps == 3          \* largest num_steps a caller passes to run
MaxCalls == 2          \* run() and step() calls the caller makes in one behaviour
MaxSchedSteps == 5     \* largest num_steps when one run walks the schedules

\* ------------------------------------------------------- program constants
One == 1000            \* the float 1.0 of the schedules, in thousandths
Res == 256             \* the resolution prepare_input compares against
NoStep == -1           \* cur_step = None

Min(a, b) == IF a <= b THEN a ELSE b
Max(a, b) == IF a >= b THEN a ELSE b

VARIABLES
    \* hyperparameters, set by __init__
    initial_lr, initial_noise_factor, lr_rampdown_length, lr_rampup_length,
    noise_ramp_length, mse_strength,
    \* Projector attributes
    num_steps, cur_step, lr, opt, latent_in, latent_std, latent_expr,
    img_gen, loss, target_image,
    \* step()'s local noise_strength, as last computed
    noise_strength,
    \* tensor storages: "mean" is latent_mean's, "w" the stored latent's,
    \* "g_params" and "g_noises" the generator's
    heap,
    \* control: where the caller is, the loop iterator of run, and the
    \* exception that ended the program with the call that raised it
    pc, i_step, fault,
    \* the caller: the tensor get_latents() returned and the value it had
    caller_latents, caller_seen, caller_images,
    \* history: calls the caller may still make, the arguments and the step
    \* indices of the current run, the stored latent and the optimizer's step
    \* count when it started, and the invocations of the noise routines
    calls_left, run_arg, steps_in_run, at_run_start, noise_calls

hyper == <<initial_lr, initial_noise_factor, lr_rampdown_length,
           lr_rampup_length, noise_ramp_length, mse_strength>>
attrs == <<num_steps, cur_step, lr, opt, latent_in, latent_std, latent_expr,
           img_gen, loss, target_image, noise_strength>>
caller == <<caller_latents, caller_seen, caller_images>>
history == <<calls_left, run_arg, steps_in_run, at_run_start, noise_calls>>
vars == <<hyper, attrs, heap, pc, i_step, fault, caller, history>>


\* ------------------------------------------------- hyperparameters, inputs
\* __init__'s defaults, in thousandths
DefaultInitialLr == 100
DefaultNoiseFactor == 50
DefaultRampdown == 250
DefaultRampup == 50
DefaultNoiseRamp == 750
DefaultNumSteps == 1000
GenRes == 1024         \* PretrainedGenerator1024's output resolution

Hyper(ilr, inf, rd, ru, nr, mse) ==
    [initial_lr |-> ilr, initial_noise_factor |-> inf, lr_rampdown_length |-> rd,
     lr_rampup_length |-> ru, noise_ramp_length |-> nr, mse_strength |-> mse]

\* The hyperparameter sets a Projector is constructed with: the defaults, and
\* ramps long enough for a few steps to land inside each window.  The last
\* two have ramp-up and ramp-down windows that overlap.
Defaults ==
    Hyper(DefaultInitialLr, DefaultNoiseFactor, DefaultRampdown,
          DefaultRampup, DefaultNoiseRamp, 0)
Hypers ==
    { Defaults,
      Hyper(DefaultInitialLr, DefaultNoiseFactor, 500, 500, 500, 0),
      Hyper(DefaultInitialLr, 0, 200, 400, 400, 0),
      Hyper(200, 100, 400, 300, 250, 500),
      Hyper(DefaultInitialLr, DefaultNoiseFactor, 500, 750, DefaultNoiseRamp, 0),
      Hyper(DefaultInitialLr, DefaultNoiseFactor, One, One, One, 0) }

\* What the mapping network's statistics come out as (line 59-63), and the
\* initial_latent argument (<<>> is None).
LatentMeans == {300}
LatentStds == {2000}
InitialLatents == {<<>>, <<700>>}

\* Images a caller passes to run(): id, number of dimensions, height, width.
Image(id, nd, h, w) == [id |-> id, ndim |-> nd, h |-> h, w |-> w]
Targets ==
    { Image(1, 3, GenRes, GenRes), Image(2, 4, Res, Res),
      Image(3, 3, 200, 512), Image(4, 3, 128, 128) }

\* What the opaque collaborators return in one step: the perceptual distance,
\* the pixel-wise error, and the sign of the gradient backward() leaves on
\* each optimized tensor; and the draw of torch.randn_like.
Responses ==
    { [dist |-> 3, mse |-> 2000, grad |-> -1],
      [dist |-> 7, mse |-> 4000, grad |-> 1] }
Randn == {-1, 1}

Storages == {"mean", "w", "g_params", "g_noises"}

\* --------------------------------------------------------- pure functions
Sign(x) == IF x > 0 THEN 1 ELSE IF x < 0 THEN -1 ELSE 0

\* np.cos(x * np.pi) for x in [0, 1]: One * cos(pi * x / One), interpolated
\* linearly between its values at the multiples of 1/20.
CosTable ==
    << 1000, 988, 951, 891, 809, 707, 588, 454, 309, 156, 0,
       -156, -309, -454, -588, -707, -809, -891, -951, -988, -1000 >>
CosPi(x) ==
    LET w == One \div (Len(CosTable) - 1)
        k == x \div w
        r == x % w
    IN  IF k >= Len(CosTable) - 1 THEN CosTable[Len(CosTable)]
        ELSE (CosTable[k + 1] * (w - r) + CosTable[k + 2] * r) \div w

\* t / length and (1 - t) / length for t = i / n, in thousandths
Ratio(i, n, length) == (i * One * One) \div (n * length)

\* update_lr, line 88
RampDown(i, n) == Min(One, Ratio(n - i, n, lr_rampdown_length))
\* update_lr, line 89
Ease(x) == (One - CosPi(x)) \div 2
\* mutant: the ramp-up factor is left out of the schedule
RampUpMissing(i, n) == One
\* update_lr, line 90 (the second factor)
RampUp(i, n) == Min(One, Ratio(i, n, lr_rampup_length))
\* update_lr, lines 88-91: the learning rate for t = i / n
ScheduledLr(i, n) ==
    (initial_lr * ((Ease(RampDown(i, n)) * RampUp(i, n)) \div One)) \div One

\* mutant: the ramp is not clamped at 0
NoiseRampUnclamped(i, n) == One - Ratio(i, n, noise_ramp_length)
\* step, line 141: max(0.0, 1.0 - t / noise_ramp_length)
NoiseRamp(i, n) == Max(0, One - Ratio(i, n, noise_ramp_length))
\* step, lines 140-141
NoiseStrength(i, n) ==
    (((latent_std * initial_noise_factor) \div One)
        * ((NoiseRamp(i, n) * NoiseRamp(i, n)) \div One)) \div One

\* utils.downsample_256
downsample_256(img) == [img EXCEPT !.h = Res, !.w = Res]

\* prepare_input, lines 116-120: the value stored as target_image
PreparedTarget(img) ==
    LET batched == IF img.ndim = 3 THEN [img EXCEPT !.ndim = 4] ELSE img
    IN  IF batched.h > Res THEN downsample_256(batched) ELSE batched

\* g_ema([latent], input_is_latent=True, noise=g_ema.noises)
Synthesize(latent) == Image(latent, 4, GenRes, GenRes)

Resolution(img) == <<img.h, img.w>>
SameResolution(a, b) == Resolution(a) = Resolution(b)

\* tensor.detach(): a tensor on the same storage
Detach(ref) == ref

\* mutant: the optimizer of the commented-out lines 76-77, which also holds
\* the generator's noise buffers
OptimizedWithNoises == {latent_in, "g_noises"}
\* torch.optim.Adam([self.latent_in], lr=...): the tensors it updates
OptimizedTensors == {latent_in}

\* The noise routines step() invokes: the calls of noise_regularization and
\* normalize_noise are commented out
NoiseHooks == {}

\* mutant: t is taken over num_steps - 1
DivisorLessOne(n) == n - 1
\* step, line 137: the divisor of t = cur_step / num_steps
Divisor(n) == n

\* mutant: the loop runs one index too far
LoopHasNextInclusive(i, n) == i <= n
\* range(self.num_steps): whether the iterator at i yields another index
LoopHasNext(i, n) == i < n

\* mutant: the rate is kept in self.lr only, the optimizer keeps its own
WriteOptLrSkipped(o, rate) == o
\* update_lr, line 92: the rate is written into the optimizer's param group
WriteOptLr(o, rate) == [o EXCEPT !.lr = rate]

\* step, lines 160-161: the loss with the optional pixel-wise term
TotalLoss(resp) ==
    resp.dist + (IF mse_strength # 0 THEN (resp.mse * mse_strength) \div One ELSE 0)

\* Adam's moment estimates after one more gradient (a bounded abstraction:
\* the first moment decays to its sign before the new gradient is added)
AdamMoments(o, g) ==
    [o EXCEPT !.step = @ + 1, !.exp_avg = Sign(@) + g]
\* Adam's update of one tensor: lr times the direction of the first moment
AdamParam(p, o) == p - o.lr * Sign(o.exp_avg)

\* ------------------------------------------------------------------ state
NoFault == [error |-> "none", call |-> "none"]

Construct(hypers, budget) ==
    /\ \E h \in hypers :
        /\ initial_lr = h.initial_lr
        /\ initial_noise_factor = h.initial_noise_factor
        /\ lr_rampdown_length = h.lr_rampdown_length
        /\ lr_rampup_length = h.lr_rampup_length
        /\ noise_ramp_length = h.noise_ramp_length
        /\ mse_strength = h.mse_strength
    /\ num_steps = DefaultNumSteps
    /\ cur_step = NoStep
    /\ lr = initial_lr
    /\ opt = [lr |-> initial_lr, step |-> 0, exp_avg |-> 0]
    /\ latent_in = "w"
    /\ latent_std \in LatentStds
    /\ \E m \in LatentMeans, il \in InitialLatents :
        heap = [s \in Storages |->
                  IF s = "mean" THEN m
                  ELSE IF s = "w" THEN (IF il = <<>> THEN m ELSE il[1])
                  ELSE 0]
    /\ latent_expr = <<>>
    /\ img_gen = <<>>
    /\ loss = <<>>
    /\ target_image = <<>>
    /\ pc = "idle"
    /\ i_step = 0
    /\ fault = NoFault
    /\ noise_strength = <<>>
    /\ caller_latents = <<>>
    /\ caller_seen = <<>>
    /\ caller_images = <<>>
    /\ calls_left = budget
    /\ run_arg = <<>>
    /\ steps_in_run = <<>>
    /\ at_run_start = [latent |-> heap[latent_in], opt_step |-> opt.step]
    /\ noise_calls = 0


\* ---------------------------------------------------------------- actions
Raise(e, c) == pc' = "raised" /\ fault' = [error |-> e, call |-> c]

\* step(), lines 135-173, on the step index cur_step' its caller has set;
\* `call` is the call of the caller that step() runs in, `after` where the
\* caller continues when step() returns.
step(call, after) ==
    IF cur_step' = NoStep
    THEN /\ Raise("TypeError", call)
         /\ UNCHANGED <<latent_expr, lr, opt, img_gen, loss, heap, noise_calls,
                        noise_strength>>
    ELSE IF Divisor(num_steps) = 0
    THEN /\ Raise("ZeroDivisionError", call)
         /\ UNCHANGED <<latent_expr, lr, opt, img_gen, loss, heap, noise_calls,
                        noise_strength>>
    ELSE \E z \in Randn, resp \in Responses :
         LET i == cur_step'
             n == Divisor(num_steps)
             noisy == heap[latent_in] + z * NoiseStrength(i, n)
             rate == ScheduledLr(i, n)
             gen == downsample_256(Synthesize(noisy))
             moments == AdamMoments(WriteOptLr(opt, rate), resp.grad)
         IN  /\ noise_strength' = <<NoiseStrength(i, n)>>
             /\ latent_expr' = <<noisy>>
             /\ lr' = rate
             /\ img_gen' = <<gen>>
             /\ IF SameResolution(gen, target_image[1])
                THEN /\ loss' = <<TotalLoss(resp)>>
                     /\ opt' = moments
                     /\ heap' = [s \in Storages |->
                                   IF s \in OptimizedTensors
                                   THEN AdamParam(heap[s], moments)
                                   ELSE heap[s]]
                     /\ noise_calls' = noise_calls + Cardinality(NoiseHooks)
                     /\ pc' = after
                     /\ fault' = fault
                ELSE /\ Raise("RuntimeError", call)
                     /\ opt' = WriteOptLr(opt, rate)
                     /\ UNCHANGED <<loss, heap, noise_calls>>

\* mutant: run() starts cold, with a new optimizer
RunColdStart(target, T) ==
    /\ pc = "idle"
    /\ calls_left > 0
    /\ num_steps' = T
    /\ target_image' = <<PreparedTarget(target)>>
    /\ pc' = "running"
    /\ i_step' = 0
    /\ calls_left' = calls_left - 1
    /\ run_arg' = <<[target |-> target, T |-> T]>>
    /\ steps_in_run' = <<>>
    /\ opt' = [lr |-> initial_lr, step |-> 0, exp_avg |-> 0]
    /\ at_run_start' = [latent |-> heap[latent_in], opt_step |-> 0]
    /\ UNCHANGED <<hyper, cur_step, lr, latent_in, latent_std, latent_expr,
                   img_gen, loss, noise_strength, heap, fault, caller,
                   noise_calls>>

\* run(), lines 124-128: up to the first iteration of the loop
Run(target, T) ==
    /\ pc = "idle"
    /\ calls_left > 0
    /\ num_steps' = T
    /\ target_image' = <<PreparedTarget(target)>>
    /\ pc' = "running"
    /\ i_step' = 0
    /\ calls_left' = calls_left - 1
    /\ run_arg' = <<[target |-> target, T |-> T]>>
    /\ steps_in_run' = <<>>
    /\ at_run_start' = [latent |-> heap[latent_in], opt_step |-> opt.step]
    /\ UNCHANGED <<hyper, cur_step, lr, opt, latent_in, latent_std, latent_expr,
                   img_gen, loss, noise_strength, heap, fault, caller,
                   noise_calls>>

\* run(), lines 129-133: one iteration of the loop
RunStep ==
    /\ pc = "running"
    /\ LoopHasNext(i_step, num_steps)
    /\ cur_step' = i_step
    /\ i_step' = i_step + 1
    /\ steps_in_run' = Append(steps_in_run, i_step)
    /\ step("run", "running")
    /\ UNCHANGED <<hyper, num_steps, latent_in, latent_std, target_image, caller,
                   calls_left, run_arg, at_run_start>>

\* run(): the loop is exhausted and run returns
RunReturn ==
    /\ pc = "running"
    /\ ~LoopHasNext(i_step, num_steps)
    /\ pc' = "idle"
    /\ UNCHANGED <<hyper, attrs, heap, i_step, fault, caller, history>>

\* the caller calls step() itself
DirectStep ==
    /\ pc = "idle"
    /\ calls_left > 0
    /\ calls_left' = calls_left - 1
    /\ cur_step' = cur_step
    /\ step("step", "idle")
    /\ UNCHANGED <<hyper, num_steps, latent_in, latent_std, target_image, i_step,
                   caller, run_arg, steps_in_run, at_run_start>>

\* mutant: get_images() keeps its result in self.img_gen
GetImagesStoring ==
    /\ pc = "idle"
    /\ caller_images' = <<Resolution(Synthesize(heap[latent_in]))>>
    /\ img_gen' = <<Synthesize(heap[latent_in])>>
    /\ UNCHANGED <<hyper, num_steps, cur_step, lr, opt, latent_in, latent_std,
                   latent_expr, loss, target_image, noise_strength, heap, pc,
                   i_step, fault, caller_latents, caller_seen, history>>

\* get_images(), lines 175-178
GetImages ==
    /\ pc = "idle"
    /\ caller_images' = <<Resolution(Synthesize(heap[latent_in]))>>
    /\ UNCHANGED <<hyper, attrs, heap, pc, i_step, fault, caller_latents,
                   caller_seen, history>>

\* get_latents(), lines 180-181
GetLatents ==
    /\ pc = "idle"
    /\ caller_latents' = <<Detach(latent_in)>>
    /\ caller_seen' = <<heap[latent_in]>>
    /\ UNCHANGED <<hyper, attrs, heap, pc, i_step, fault, caller_images, history>>

\* A Projector with the default hyperparameters and any caller
Init == Construct({Defaults}, MaxCalls)

Next ==
    \/ \E target \in Targets, T \in 0..MaxSteps : Run(target, T)
    \/ RunStep
    \/ RunReturn
    \/ DirectStep
    \/ GetImages
    \/ GetLatents

Spec == Init /\ [][Next]_vars

\* A Projector with any of the hyperparameter sets, on which run() is called
\* once: every schedule is walked over 1..MaxSchedSteps steps
InitSched == Construct(Hypers, 1)

NextSched ==
    \/ \E target \in Targets, T \in 0..MaxSchedSteps : Run(target, T)
    \/ RunStep
    \/ RunReturn

SpecSched == InitSched /\ [][NextSched]_vars


\* ----------------------------------------------------------------- claims
StepIndices(n) == [k \in 1..n |-> k - 1]
RunCalled == \E target \in Targets, T \in 0..MaxSteps : Run(target, T)
\* the step with index i of n falls at or after x (in thousandths): t >= x
AtOrAfter(i, n, x) == i * One >= x * n
\* ... at or before x: t <= x
AtOrBefore(i, n, x) == i * One <= x * n

\* C1: a run(target, T) that returns has invoked step() exactly T times, with
\* the step indices 0, 1, ..., T-1 in that order, each step using
\* t = cur_step / num_steps with num_steps = T and 0 <= t < 1; the only way a
\* run ends without returning is the RuntimeError of a loss computation on
\* images of different resolutions.
C1_RunStepsInOrder ==
    run_arg # <<>> =>
        LET T == run_arg[1].T
            k == Len(steps_in_run)
        IN  /\ k <= T
            /\ steps_in_run = StepIndices(k)
            /\ k > 0 => /\ cur_step = steps_in_run[k]
                        /\ num_steps = T
                        /\ 0 <= cur_step
                        /\ cur_step < num_steps
            /\ pc = "idle" => k = T
            /\ (pc = "raised" /\ fault.call = "run") =>
                   /\ fault.error = "RuntimeError"
                   /\ ~SameResolution(img_gen[1], target_image[1])
C1_Witness ==
    /\ pc = "idle"
    /\ run_arg # <<>>
    /\ run_arg[1].T = MaxSteps
    /\ steps_in_run = StepIndices(MaxSteps)
    /\ opt.step >= MaxSteps

\* C2: every run() stores its own (prepared) target and its own num_steps and
\* restarts the loop at index 0, so that its first step has cur_step = 0 and
\* the schedules' values for t = 0; neither the call nor the return of run()
\* touches the stored latent or the optimizer state, which are therefore
\* those the previous run left.
C2_WarmStart ==
    [][ /\ RunCalled =>
              /\ target_image' = <<PreparedTarget(run_arg'[1].target)>>
              /\ num_steps' = run_arg'[1].T
              /\ i_step' = 0
              /\ UNCHANGED <<heap, opt, latent_in>>
        /\ (RunStep /\ steps_in_run = <<>>) =>
              /\ cur_step' = 0
              /\ lr' = ScheduledLr(0, run_arg[1].T)
              /\ noise_strength' = <<NoiseStrength(0, run_arg[1].T)>>
        /\ RunReturn => UNCHANGED <<heap, opt, latent_in>>
      ]_vars
C2_Witness ==
    /\ pc = "running"
    /\ calls_left = MaxCalls - 2
    /\ steps_in_run = <<0>>
    /\ at_run_start.opt_step = MaxSteps
    /\ opt.exp_avg # 0
    /\ at_run_start.latent \notin {heap["mean"]} \cup {il[1] : il \in InitialLatents \ {<<>>}}
    /\ target_image[1].id = 2

\* C3: get_images() and get_latents() change nothing but what the caller
\* holds: the stored latent, the optimizer state, the learning rate, the step
\* index, num_steps, the target, the last loss, the last generated image and
\* the latent statistics are all as before the call.
C3_GettersPure ==
    [][ (GetImages \/ GetLatents) =>
            UNCHANGED <<heap, opt, lr, cur_step, num_steps, target_image, loss,
                        img_gen, latent_std, latent_in, latent_expr,
                        noise_strength, hyper, pc, fault>> ]_vars
C3_Witness ==
    /\ pc = "idle"
    /\ caller_images # <<>>
    /\ caller_latents # <<>>
    /\ caller_seen = <<heap[latent_in]>>
    /\ caller_seen # <<at_run_start.latent>>
    /\ loss # <<>>
    /\ img_gen # <<>>

\* C4: the tensor get_latents() returned still has the value it had when the
\* caller obtained it, whatever step() and run() have done since.
C4_SnapshotUnchanged ==
    caller_latents # <<>> => heap[caller_latents[1]] = caller_seen[1]

\* C7: run(target, 1) raises no ZeroDivisionError; its one step has index 0,
\* hence t = 0, and when it returns exactly one optimizer update was made.
C7_SingleStepRun ==
    [][ (run_arg' # <<>> /\ run_arg'[1].T = 1) =>
            /\ fault'.error # "ZeroDivisionError"
            /\ RunStep => /\ cur_step' = 0
                          /\ steps_in_run' = <<0>>
                          /\ Ratio(cur_step', num_steps, One) = 0
            /\ RunReturn => /\ steps_in_run = <<0>>
                            /\ cur_step = 0
                            /\ opt.step = at_run_start.opt_step + 1
      ]_vars
C7_Witness ==
    /\ pc = "idle"
    /\ run_arg # <<>>
    /\ run_arg[1].T = 1
    /\ steps_in_run = <<0>>
    /\ opt.step = at_run_start.opt_step + 1
    /\ fault = NoFault

\* C8: a target whose larger side exceeds 256 is stored as a 256x256 image,
\* and whenever a step has computed (or tried to compute) the loss, the stored
\* target has the resolution of the generated image.
C8_TargetMatchesGenerated ==
    run_arg # <<>> =>
        /\ Max(run_arg[1].target.h, run_arg[1].target.w) > Res =>
               Resolution(target_image[1]) = <<Res, Res>>
        /\ steps_in_run # <<>> => SameResolution(img_gen[1], target_image[1])

\* C9: no call changes the latent statistics, the generator's parameters or
\* its noise buffers; the only storage any call writes is the stored latent's;
\* the noise routines are never invoked.
C9_OnlyLatentWritten ==
    [][ /\ heap'["mean"] = heap["mean"]
        /\ latent_std' = latent_std
        /\ heap'["g_params"] = heap["g_params"]
        /\ heap'["g_noises"] = heap["g_noises"]
        /\ \A s \in Storages : heap'[s] # heap[s] => s = latent_in
        /\ RunStep \/ DirectStep => OptimizedTensors = {latent_in}
        /\ noise_calls' = 0
      ]_vars
C9_Witness ==
    /\ pc = "running"
    /\ opt.step >= 2
    /\ heap[latent_in] # at_run_start.latent
    /\ heap["mean"] \in LatentMeans

\* C10: a step that completes has written its own rate (that of
\* t = cur_step / num_steps) into the optimizer before the update, which moved
\* the stored latent by that rate; so the first step of a run (rate 0) leaves
\* the stored latent as it was, although the optimizer's moments changed and
\* noise was added to the working latent; and a run of one step returns with
\* the stored latent it started with.
C10_FirstStepKeepsLatent ==
    [][ /\ (RunStep /\ pc' = "running") =>
              /\ lr' = ScheduledLr(cur_step', num_steps)
              /\ opt'.lr = lr'
              /\ heap'[latent_in] = heap[latent_in] - lr' * Sign(opt'.exp_avg)
              /\ cur_step' = 0 =>
                    /\ lr' = 0
                    /\ heap' = heap
                    /\ opt'.step = opt.step + 1
                    /\ noise_strength'[1] > 0 => latent_expr' # <<heap[latent_in]>>
        /\ (RunReturn /\ run_arg[1].T = 1) => heap[latent_in] = at_run_start.latent
      ]_vars
C10_Witness ==
    /\ pc = "running"
    /\ steps_in_run = <<0>>
    /\ calls_left = MaxCalls - 2
    /\ at_run_start.opt_step > 0
    /\ at_run_start.latent \notin {heap["mean"]} \cup {il[1] : il \in InitialLatents \ {<<>>}}
    /\ heap[latent_in] = at_run_start.latent
    /\ opt.step = at_run_start.opt_step + 1
    /\ latent_expr # <<heap[latent_in]>>
    /\ lr = 0


\* The parts of the learning-rate claim outside the ramp-up window: the rate
\* set by step i of n (lr') is 0 at t = 0, is initial_lr when both ramps are
\* saturated, does not increase from the step before once the ramp-up is
\* saturated and the plateau is over, lies in [0, initial_lr], and is at most
\* initial_lr * (1 - t) / lr_rampdown_length in the second half of the
\* ramp-down (so it tends to 0 as t approaches 1).
LrOutsideRampUp(i, n) ==
    /\ i = 0 => lr' = 0
    /\ (AtOrAfter(i, n, lr_rampup_length)
            /\ AtOrBefore(i, n, One - lr_rampdown_length)) => lr' = initial_lr
    /\ (i > 0 /\ AtOrAfter(i - 1, n, lr_rampup_length)
              /\ AtOrAfter(i - 1, n, One - lr_rampdown_length)) => lr' <= lr
    /\ 0 <= lr'
    /\ lr' <= initial_lr
    /\ RampDown(i, n) <= One \div 2 => lr' * One <= initial_lr * RampDown(i, n)

\* C5 as stated: for any ramp lengths > 0, the rate does not decrease from
\* one step to the next through the whole ramp-up window
\* (t <= lr_rampup_length).
C5_LrTrapezoid ==
    [][ RunStep =>
          LET i == cur_step'
              n == num_steps
          IN  /\ LrOutsideRampUp(i, n)
              /\ (i > 0 /\ AtOrBefore(i, n, lr_rampup_length)) => lr' >= lr
      ]_vars

\* C5 amended: the rate does not decrease through the ramp-up window as long
\* as the ramp-down has not begun (t <= lr_rampup_length and
\* t <= 1 - lr_rampdown_length).
C5_LrTrapezoidBeforeRampDown ==
    [][ RunStep =>
          LET i == cur_step'
              n == num_steps
          IN  /\ LrOutsideRampUp(i, n)
              /\ (i > 0 /\ AtOrBefore(i, n, lr_rampup_length)
                        /\ AtOrBefore(i, n, One - lr_rampdown_length)) => lr' >= lr
      ]_vars
\* the last step of a run that rose, held the plateau and is decaying
C5_Witness ==
    /\ pc = "running"
    /\ num_steps = MaxSchedSteps
    /\ cur_step = num_steps - 1
    /\ lr_rampup_length + lr_rampdown_length <= One
    /\ AtOrBefore(1, num_steps, lr_rampup_length)
    /\ AtOrAfter(cur_step - 1, num_steps, One - lr_rampdown_length)
    /\ 0 < lr
    /\ lr < initial_lr
    /\ RampDown(cur_step, num_steps) <= One \div 2

\* C6: from one step of a run to the next the noise magnitude does not
\* increase; the working latent is the stored latent plus a random draw
\* scaled by it;
\* and at every step with t >= noise_ramp_length it is 0 and the working
\* latent is the stored latent.
C6_NoiseAnneals ==
    [][ RunStep =>
          LET i == cur_step'
              n == num_steps
          IN  /\ noise_strength'[1] >= 0
              /\ i > 0 => noise_strength'[1] <= noise_strength[1]
              /\ \E z \in Randn :
                    latent_expr'[1] = heap[latent_in] + z * noise_strength'[1]
              /\ AtOrAfter(i, n, noise_ramp_length) =>
                    /\ noise_strength' = <<0>>
                    /\ latent_expr' = <<heap[latent_in]>>
      ]_vars
\* a step past the noise ramp, after steps that did inject noise
C6_Witness ==
    /\ pc = "running"
    /\ cur_step > 1
    /\ AtOrAfter(cur_step, num_steps, noise_ramp_length)
    /\ ~AtOrAfter(cur_step - 1, num_steps, noise_ramp_length)
    /\ initial_noise_factor > 0
    /\ noise_strength = <<0>>
    /\ loss # <<>>

=============================================================================
